---- MODULE Spec2Model ----
(***************************************************************************)
(* The CRUD core of rayuela (app/crud/novel_crud.py) over the three        *)
(* tables of app/models/novel.py: projects own ordered chapters, chapters  *)
(* own ordered scenes, word counts roll up scene -> chapter -> project.    *)
(*                                                                         *)
(* One action is one CRUD call, run to completion (every call ends with    *)
(* db.commit(), so between calls the session holds nothing pending and the *)
(* state is the content of the three tables).  The columns the CRUD code   *)
(* only stores and never reads back (description, author, genre, summary,  *)
(* notes, is_completed, target_word_count, chapter title) are not kept.    *)
(* updated_at is kept as the kinds of row whose updated_at the last call   *)
(* assigned (last.stamped).                                                *)
(***************************************************************************)
EXTENDS Integers, Sequences, FiniteSets, TLC

VARIABLES projects, chapters, scenes, autoflush, last, inflight

vars == <<projects, chapters, scenes, autoflush, last, inflight>>

(* ----------------------------- bounds ---------------------------------- *)

MaxProjects == 2
MaxChapters == 2
MaxScenes == 2
OrdChapters == 3
OrdScenes == 3
ApiProjects == 1

(* ------------------------ values and strings ---------------------------- *)

\* Python None and a present value: an optional is a sequence of length <= 1.
None == <<>>
Some(v) == <<v>>
IsNone(x) == x = None
Val(x) == x[1]

\* A Python str is a sequence of one-character strings.
Whitespace == {" ", "\t", "\n"}
isspace(ch) == ch \in Whitespace

\* bool(x) of an Optional[str]: None and "" are falsy.
Truthy(x) == ~IsNone(x) /\ Len(Val(x)) > 0

\* str.split() with no separator: skip a run of whitespace, take the run of
\* non-whitespace that follows as one token, repeat to the end of the string.
RECURSIVE SkipSpace(_, _)
SkipSpace(s, i) == IF i <= Len(s) /\ isspace(s[i]) THEN SkipSpace(s, i + 1) ELSE i

RECURSIVE SkipWord(_, _)
SkipWord(s, i) == IF i <= Len(s) /\ ~isspace(s[i]) THEN SkipWord(s, i + 1) ELSE i

RECURSIVE SplitFrom(_, _)
SplitFrom(s, i) ==
    LET j == SkipSpace(s, i)
    IN  IF j > Len(s) THEN <<>>
        ELSE LET k == SkipWord(s, j + 1)
             IN  <<SubSeq(s, j, k - 1)>> \o SplitFrom(s, k)

split(s) == SplitFrom(s, 1)

\* Variant: len(content.split(" ")), which cuts at every single blank and counts the
\* empty pieces.
WordCountOf_SplitOnBlank(content) ==
    IF Truthy(content)
    THEN Cardinality({i \in 1..Len(Val(content)) : Val(content)[i] = " "}) + 1
    ELSE 0

\* len(content.split()) if content else 0
WordCountOf(content) == IF Truthy(content) THEN Len(split(Val(content))) ELSE 0

\* str(n) for n >= 0, most significant digit first.
Digit == <<"0", "1", "2", "3", "4", "5", "6", "7", "8", "9">>

RECURSIVE str(_)
str(n) == IF n < 10 THEN <<Digit[n + 1]>> ELSE str(n \div 10) \o <<Digit[(n % 10) + 1]>>

\* Variant: the title is built from max_order, not max_order + 1.
DefaultTitle_MaxOrder(title, n) ==
    IF Truthy(title) THEN title ELSE Some(<<"S", "c", "e", "n", "e", " ">> \o str(n - 1))

\* title or f"Scene {max_order + 1}"
DefaultTitle(title, n) ==
    IF Truthy(title) THEN title ELSE Some(<<"S", "c", "e", "n", "e", " ">> \o str(n))

(* --------------------------- the store ---------------------------------- *)

RECURSIVE SetMax(_)
SetMax(S) == IF S = {} THEN 0
             ELSE LET x == CHOOSE y \in S : TRUE
                      m == SetMax(S \ {x})
                  IN  IF x > m THEN x ELSE m

RECURSIVE SumOver(_, _)
SumOver(f, S) == IF S = {} THEN 0
                 ELSE LET x == CHOOSE y \in S : TRUE
                      IN  f[x].word_count + SumOver(f, S \ {x})

\* SQLite INTEGER PRIMARY KEY without AUTOINCREMENT: the new rowid is the
\* largest rowid in the table plus one.
NextId(table) == SetMax(DOMAIN table) + 1

Insert(table, id, row) == [x \in DOMAIN table \cup {id} |-> IF x = id THEN row ELSE table[x]]
Remove(table, ids) == [x \in DOMAIN table \ ids |-> table[x]]

ChaptersOf(chs, p) == {c \in DOMAIN chs : chs[c].project_id = p}
ScenesOf(scs, c) == {s \in DOMAIN scs : scs[s].chapter_id = c}

\* Variant: the filter on the parent is missing.
MaxSceneOrder_AnyChapter(scs, c) == SetMax({scs[s].order_index : s \in DOMAIN scs})

\* db.query(func.max(X.order_index)).filter(parent == id).scalar() or 0
MaxChapterOrder(chs, p) == SetMax({chs[c].order_index : c \in ChaptersOf(chs, p)})
MaxSceneOrder(scs, c) == SetMax({scs[s].order_index : s \in ScenesOf(scs, c)})

\* db.query(func.sum(X.word_count)).filter(parent == id).scalar() or 0
SumChapterWords(chs, p) == SumOver(chs, ChaptersOf(chs, p))
SumSceneWords(scs, c) == SumOver(scs, ScenesOf(scs, c))

\* What the last call was, what it returned ("Entity" for a returned row) and the
\* kinds of row whose updated_at it assigned.
Call(op, ret, stamped) == [op |-> op, ret |-> ret, stamped |-> stamped]

\* The callers that can be inside SceneCRUD.update_order at the same time (each
\* request runs the handler on a session of its own), and one caller's position
\* in it: the row and new_order it was given, the old_order it read, and the
\* rows its transaction has written but not committed.
Sessions == 1..2
Idle == [pc |-> "idle", id |-> 0, new_order |-> 0, old_order |-> 0, tx |-> << >>]
Quiet == [calls |-> [k \in Sessions |-> Idle], raced |-> FALSE]

Init ==
    /\ projects = << >>
    /\ chapters = << >>
    /\ scenes = << >>
    /\ autoflush \in BOOLEAN
    /\ last = Call("init", "None", {})
    /\ inflight = Quiet

(* --------------------------- ProjectCRUD -------------------------------- *)

\* The attributes hasattr() finds on a mapped instance.
ProjectAttrs == {"id", "title", "description", "author", "genre", "target_word_count",
                 "current_word_count", "is_active", "created_at", "updated_at", "chapters"}
ChapterAttrs == {"id", "title", "description", "order_index", "word_count", "is_completed",
                 "created_at", "updated_at", "project_id", "project", "scenes"}
SceneAttrs == {"id", "title", "content", "summary", "order_index", "word_count", "notes",
               "is_completed", "created_at", "updated_at", "chapter_id", "chapter"}

\* Variant: the test `key != 'order_index'` is missing.
SetAttrs_NoSkip(row, kwargs, attrs, skip) ==
    [f \in DOMAIN row |-> IF f \in DOMAIN kwargs /\ f \in attrs THEN kwargs[f] ELSE row[f]]

\* for key, value in kwargs.items(): if hasattr(row, key) [and key not in skip]: setattr(...)
\* restricted to the columns the model keeps.
SetAttrs(row, kwargs, attrs, skip) ==
    [f \in DOMAIN row |->
        IF f \in DOMAIN kwargs /\ f \in attrs /\ f \notin skip THEN kwargs[f] ELSE row[f]]

ProjectCRUD_create ==
    LET id == NextId(projects)
    IN  /\ projects' = Insert(projects, id, [current_word_count |-> 0, is_active |-> TRUE])
        /\ last' = Call("ProjectCRUD.create", "Entity", {})
        /\ UNCHANGED <<chapters, scenes, autoflush, inflight>>

\* db.query(Project).filter(Project.id == project_id).first(): the row, or None.
ProjectCRUD_get_by_id(prj, project_id) ==
    IF project_id \in DOMAIN prj THEN Some(prj[project_id]) ELSE None

\* query.all(), with the filter on is_active when active_only: the ids of the rows
\* returned (the query has no ORDER BY).
ProjectCRUD_get_all(prj, active_only) ==
    {p \in DOMAIN prj : active_only => prj[p].is_active = TRUE}

ProjectCRUD_update(project_id, kwargs) ==
    /\ IF project_id \in DOMAIN projects
       THEN /\ projects' = [projects EXCEPT
                               ![project_id] = SetAttrs(@, kwargs, ProjectAttrs, {})]
            /\ last' = Call("ProjectCRUD.update", "Entity",
                            {"project"})
       ELSE /\ projects' = projects
            /\ last' = Call("ProjectCRUD.update", "None", {})
    /\ UNCHANGED <<chapters, scenes, autoflush, inflight>>

\* Variant: a hard delete, db.delete(project), which the cascade of
\* Project.chapters carries down to the chapters and their scenes.
ProjectCRUD_delete_Hard(project_id) ==
    /\ IF project_id \in DOMAIN projects
       THEN /\ projects' = Remove(projects, {project_id})
            /\ chapters' = Remove(chapters, ChaptersOf(chapters, project_id))
            /\ scenes' = Remove(scenes, {s \in DOMAIN scenes :
                                            scenes[s].chapter_id \in
                                                ChaptersOf(chapters, project_id)})
            /\ last' = Call("ProjectCRUD.delete", "True", {})
       ELSE /\ UNCHANGED <<projects, chapters, scenes>>
            /\ last' = Call("ProjectCRUD.delete", "False", {})
    /\ UNCHANGED <<autoflush, inflight>>

ProjectCRUD_delete(project_id) ==
    /\ IF project_id \in DOMAIN projects
       THEN /\ projects' = [projects EXCEPT ![project_id].is_active = FALSE]
            /\ last' = Call("ProjectCRUD.delete", "True",
                            {"project"})
       ELSE /\ projects' = projects
            /\ last' = Call("ProjectCRUD.delete", "False", {})
    /\ UNCHANGED <<chapters, scenes, autoflush, inflight>>

(* --------------------------- ChapterCRUD -------------------------------- *)

\* Result of a rollup: the tables as committed and the rows stamped.
Rolled(prj, chs, stamped) == [projects |-> prj, chapters |-> chs, stamped |-> stamped]

\* The sum query runs against the database.  A session with autoflush flushes the
\* pending attribute writes first; without it the query sees the rows as last
\* flushed.
Visible(af, flushed, pending) == IF af THEN pending ELSE flushed

ChapterCRUD_update_project_word_count(prj, flushed, pending, af, project_id) ==
    LET total_words == SumChapterWords(Visible(af, flushed, pending), project_id)
    IN  IF project_id \in DOMAIN prj
        THEN Rolled([prj EXCEPT ![project_id].current_word_count = total_words],
                    pending, {"project"})
        ELSE Rolled(prj, pending, {})

ChapterCRUD_update_chapter_word_count(prj, chs, scs, af, chapter_id) ==
    LET total_words == SumSceneWords(scs, chapter_id)
    IN  IF chapter_id \in DOMAIN chs
        THEN ChapterCRUD_update_project_word_count(
                 prj, chs, [chs EXCEPT ![chapter_id].word_count = total_words], af,
                 chs[chapter_id].project_id)
        ELSE Rolled(prj, chs, {})

ChapterCRUD_create(project_id) ==
    LET id == NextId(chapters)
        max_order == MaxChapterOrder(chapters, project_id)
    IN  /\ chapters' = Insert(chapters, id, [project_id |-> project_id,
                                             order_index |-> max_order + 1,
                                             word_count |-> 0])
        /\ last' = Call("ChapterCRUD.create", "Entity", {})
        /\ UNCHANGED <<projects, scenes, autoflush, inflight>>

\* Variant: the bulk UPDATE without its filter on the parent.
ShiftOrder_AnyGroup(table, group, lo, hi, delta) ==
    [x \in DOMAIN table |->
        IF table[x].order_index >= lo /\ table[x].order_index <= hi
        THEN [table[x] EXCEPT !.order_index = @ + delta]
        ELSE table[x]]

\* Variant: the upper end of the range is missing from the filter.
ShiftOrder_NoUpperEnd(table, group, lo, hi, delta) ==
    [x \in DOMAIN table |->
        IF x \in group /\ table[x].order_index >= lo
        THEN [table[x] EXCEPT !.order_index = @ + delta]
        ELSE table[x]]

\* The two bulk UPDATEs of update_order and the one of delete, on either table:
\* rows of the group whose order_index is in the range move by one.
ShiftOrder(table, group, lo, hi, delta) ==
    [x \in DOMAIN table |->
        IF x \in group /\ table[x].order_index >= lo /\ table[x].order_index <= hi
        THEN [table[x] EXCEPT !.order_index = @ + delta]
        ELSE table[x]]

\* Larger than any order_index: the open upper end of delete's range.
TopOrder(table) == SetMax({table[x].order_index : x \in DOMAIN table})

\* Variant: the moved row is written back whole, its word_count at the column
\* default.
Reorder_ResetsCount(table, group, id, new_order) ==
    LET old_order == table[id].order_index
        shifted == IF new_order > old_order
                   THEN ShiftOrder(table, group, old_order + 1, new_order, -1)
                   ELSE ShiftOrder(table, group, new_order, old_order - 1, 1)
    IN  [shifted EXCEPT ![id].order_index = new_order, ![id].word_count = 0]

\* Variant: the move-down range stops short of new_order (< instead of <=).
Reorder_OpenRange(table, group, id, new_order) ==
    LET old_order == table[id].order_index
        shifted == IF new_order > old_order
                   THEN ShiftOrder(table, group, old_order + 1, new_order - 1, -1)
                   ELSE ShiftOrder(table, group, new_order, old_order - 1, 1)
    IN  [shifted EXCEPT ![id].order_index = new_order]

\* The `if new_order > old_order: ... else: ...` of update_order: one bulk UPDATE
\* over the group, its range fixed by the old_order the caller holds.
Shifted(table, group, old_order, new_order) ==
    IF new_order > old_order
    THEN ShiftOrder(table, group, old_order + 1, new_order, -1)
    ELSE ShiftOrder(table, group, new_order, old_order - 1, 1)

Reorder(table, group, id, new_order) ==
    LET old_order == table[id].order_index
        shifted == Shifted(table, group, old_order, new_order)
    IN  [shifted EXCEPT ![id].order_index = new_order]

ChapterCRUD_update_order(chapter_id, new_order) ==
    /\ IF chapter_id \in DOMAIN chapters
       THEN /\ chapters' = Reorder(chapters,
                                   ChaptersOf(chapters, chapters[chapter_id].project_id),
                                   chapter_id, new_order)
            /\ last' = Call("ChapterCRUD.update_order", "True",
                            {"chapter"})
       ELSE /\ chapters' = chapters
            /\ last' = Call("ChapterCRUD.update_order", "False", {})
    /\ UNCHANGED <<projects, scenes, autoflush, inflight>>

ChapterCRUD_update(chapter_id, kwargs) ==
    /\ IF chapter_id \in DOMAIN chapters
       THEN /\ chapters' = [chapters EXCEPT
                               ![chapter_id] = SetAttrs(@, kwargs, ChapterAttrs, {"order_index"})]
            /\ last' = Call("ChapterCRUD.update", "Entity",
                            {"chapter"})
       ELSE /\ chapters' = chapters
            /\ last' = Call("ChapterCRUD.update", "None", {})
    /\ UNCHANGED <<projects, scenes, autoflush, inflight>>

\* Variant: the remaining chapters are not reordered.
ChapterCRUD_delete_NoReorder(chapter_id) ==
    IF chapter_id \in DOMAIN chapters
    THEN LET project_id == chapters[chapter_id].project_id
             kept == Remove(chapters, {chapter_id})
             r == ChapterCRUD_update_project_word_count(
                      projects, kept, kept, autoflush, project_id)
         IN  /\ scenes' = Remove(scenes, ScenesOf(scenes, chapter_id))
             /\ chapters' = r.chapters
             /\ projects' = r.projects
             /\ last' = Call("ChapterCRUD.delete", "True", r.stamped)
             /\ UNCHANGED <<autoflush, inflight>>
    ELSE /\ last' = Call("ChapterCRUD.delete", "False", {})
         /\ UNCHANGED <<projects, chapters, scenes, autoflush, inflight>>

\* Variant: Chapter.scenes carries no delete cascade, the scenes stay behind.
ChapterCRUD_delete_NoCascade(chapter_id) ==
    IF chapter_id \in DOMAIN chapters
    THEN LET project_id == chapters[chapter_id].project_id
             order_index == chapters[chapter_id].order_index
             kept == Remove(chapters, {chapter_id})
             reordered == ShiftOrder(kept, ChaptersOf(kept, project_id),
                                     order_index + 1, TopOrder(kept), -1)
             r == ChapterCRUD_update_project_word_count(
                      projects, reordered, reordered, autoflush, project_id)
         IN  /\ scenes' = scenes
             /\ chapters' = r.chapters
             /\ projects' = r.projects
             /\ last' = Call("ChapterCRUD.delete", "True", r.stamped)
             /\ UNCHANGED <<autoflush, inflight>>
    ELSE /\ last' = Call("ChapterCRUD.delete", "False", {})
         /\ UNCHANGED <<projects, chapters, scenes, autoflush, inflight>>

ChapterCRUD_delete(chapter_id) ==
    IF chapter_id \in DOMAIN chapters
    THEN LET project_id == chapters[chapter_id].project_id
             order_index == chapters[chapter_id].order_index
             \* db.delete(chapter): the row and, by the delete cascade of
             \* Chapter.scenes, its scenes
             kept == Remove(chapters, {chapter_id})
             reordered == ShiftOrder(kept, ChaptersOf(kept, project_id),
                                     order_index + 1, TopOrder(kept), -1)
             r == ChapterCRUD_update_project_word_count(
                      projects, reordered, reordered, autoflush, project_id)
         IN  /\ scenes' = Remove(scenes, ScenesOf(scenes, chapter_id))
             /\ chapters' = r.chapters
             /\ projects' = r.projects
             /\ last' = Call("ChapterCRUD.delete", "True", r.stamped)
             /\ UNCHANGED <<autoflush, inflight>>
    ELSE /\ last' = Call("ChapterCRUD.delete", "False", {})
         /\ UNCHANGED <<projects, chapters, scenes, autoflush, inflight>>

(* ---------------------------- SceneCRUD --------------------------------- *)

\* Variant: the rollup that touches the project also marks it active.
SceneCRUD_update_chapter_word_count_Reactivates(prj, chs, scs, af, chapter_id) ==
    LET total_words == SumSceneWords(scs, chapter_id)
    IN  IF chapter_id \in DOMAIN chs
        THEN LET pending == [chs EXCEPT ![chapter_id].word_count = total_words]
                 project_id == chs[chapter_id].project_id
                 project_total == SumChapterWords(Visible(af, chs, pending), project_id)
             IN  IF project_id \in DOMAIN prj
                 THEN Rolled([prj EXCEPT ![project_id] =
                                  [current_word_count |-> project_total, is_active |-> TRUE]],
                             pending, {"project"})
                 ELSE Rolled(prj, pending, {})
        ELSE Rolled(prj, chs, {})

SceneCRUD_update_chapter_word_count(prj, chs, scs, af, chapter_id) ==
    LET total_words == SumSceneWords(scs, chapter_id)
    IN  IF chapter_id \in DOMAIN chs
        THEN LET pending == [chs EXCEPT ![chapter_id].word_count = total_words]
                 project_id == chs[chapter_id].project_id
                 project_total == SumChapterWords(Visible(af, chs, pending), project_id)
             IN  IF project_id \in DOMAIN prj
                 THEN Rolled([prj EXCEPT ![project_id].current_word_count = project_total],
                             pending, {"project"})
                 ELSE Rolled(prj, pending, {})
        ELSE Rolled(prj, chs, {})

SceneCRUD_create(chapter_id, title, content) ==
    LET id == NextId(scenes)
        max_order == MaxSceneOrder(scenes, chapter_id)
        added == Insert(scenes, id, [title |-> DefaultTitle(title, max_order + 1),
                                     content |-> content,
                                     chapter_id |-> chapter_id,
                                     order_index |-> max_order + 1,
                                     word_count |-> WordCountOf(content)])
        r == SceneCRUD_update_chapter_word_count(projects, chapters, added, autoflush,
                                                 chapter_id)
    IN  /\ scenes' = added
        /\ chapters' = r.chapters
        /\ projects' = r.projects
        /\ last' = Call("SceneCRUD.create", "Entity", r.stamped)
        /\ UNCHANGED <<autoflush, inflight>>

\* Variant: update_order itself refuses a new_order outside 1..sibling count.
SceneCRUD_update_order_Checked(scene_id, new_order) ==
    /\ IF /\ scene_id \in DOMAIN scenes
          /\ 1 <= new_order
          /\ new_order <= Cardinality(ScenesOf(scenes, scenes[scene_id].chapter_id))
       THEN /\ scenes' = Reorder(scenes, ScenesOf(scenes, scenes[scene_id].chapter_id),
                                 scene_id, new_order)
            /\ last' = Call("SceneCRUD.update_order", "True", {"scene"})
       ELSE /\ scenes' = scenes
            /\ last' = Call("SceneCRUD.update_order", "False", {})
    /\ UNCHANGED <<projects, chapters, autoflush, inflight>>

SceneCRUD_update_order(scene_id, new_order) ==
    /\ IF scene_id \in DOMAIN scenes
       THEN /\ scenes' = Reorder(scenes, ScenesOf(scenes, scenes[scene_id].chapter_id),
                                 scene_id, new_order)
            /\ last' = Call("SceneCRUD.update_order", "True",
                            {"scene"})
       ELSE /\ scenes' = scenes
            /\ last' = Call("SceneCRUD.update_order", "False", {})
    /\ UNCHANGED <<projects, chapters, autoflush, inflight>>

\* SceneCRUD.update_order as the steps one caller takes while another caller may
\* take its own. Step 1, the SELECT of the row: old_order is what the row holds
\* now; a missing row ends the call with False.
SceneCRUD_update_order_read(k, scene_id, new_order) ==
    /\ inflight.calls[k].pc = "idle"
    /\ IF scene_id \in DOMAIN scenes
       THEN /\ inflight' =
                 [calls |-> [inflight.calls EXCEPT ![k] =
                                [pc |-> "read", id |-> scene_id, new_order |-> new_order,
                                 old_order |-> scenes[scene_id].order_index,
                                 tx |-> << >>]],
                  raced |-> \/ inflight.raced
                            \/ \E j \in Sessions \ {k} : inflight.calls[j].pc # "idle"]
            /\ last' = last
       ELSE /\ inflight' = inflight
            /\ last' = Call("SceneCRUD.update_order", "False", {})
    /\ UNCHANGED <<projects, chapters, scenes, autoflush>>

\* Step 2, the bulk UPDATE: it runs on the rows committed by now, with the range
\* taken from the old_order of step 1. The UPDATE takes the database's write
\* lock, which a caller holds until it commits, so no other caller is between its
\* UPDATE and its commit; the written rows stay in the caller's transaction.
SceneCRUD_update_order_shift(k) ==
    LET call == inflight.calls[k]
    IN  /\ call.pc = "read"
        /\ \A j \in Sessions \ {k} : inflight.calls[j].pc # "shifted"
        /\ inflight' =
              [inflight EXCEPT !.calls[k].pc = "shifted",
                               !.calls[k].tx =
                                   Shifted(scenes,
                                           ScenesOf(scenes, scenes[call.id].chapter_id),
                                           call.old_order, call.new_order)]
        /\ UNCHANGED <<projects, chapters, scenes, autoflush, last>>

\* Step 3, `scene.order_index = new_order` and db.commit(): the transaction's rows
\* and the row's own index become the committed rows.
SceneCRUD_update_order_commit(k) ==
    LET call == inflight.calls[k]
    IN  /\ call.pc = "shifted"
        /\ scenes' = [call.tx EXCEPT ![call.id].order_index = call.new_order]
        /\ last' = Call("SceneCRUD.update_order", "True", {"scene"})
        /\ inflight' = [inflight EXCEPT !.calls[k] = Idle]
        /\ UNCHANGED <<projects, chapters, autoflush>>

\* Variant: the rollup call stands outside `if scene:` and reads scene.chapter_id
\* of None.
SceneCRUD_update_Unguarded(scene_id, kwargs) ==
    IF scene_id \in DOMAIN scenes
    THEN LET assigned == SetAttrs(scenes[scene_id], kwargs, SceneAttrs, {"order_index"})
             counted == IF "content" \in DOMAIN kwargs
                        THEN [assigned EXCEPT !.word_count = WordCountOf(kwargs["content"])]
                        ELSE assigned
             updated == [scenes EXCEPT ![scene_id] = counted]
             r == SceneCRUD_update_chapter_word_count(projects, chapters, updated,
                                                      autoflush, counted.chapter_id)
         IN  /\ scenes' = updated
             /\ chapters' = r.chapters
             /\ projects' = r.projects
             /\ last' = Call("SceneCRUD.update", "Entity", r.stamped \cup {"scene"})
             /\ UNCHANGED <<autoflush, inflight>>
    ELSE /\ last' = Call("SceneCRUD.update", "AttributeError", {})
         /\ UNCHANGED <<projects, chapters, scenes, autoflush, inflight>>

SceneCRUD_update(scene_id, kwargs) ==
    IF scene_id \in DOMAIN scenes
    THEN LET assigned == SetAttrs(scenes[scene_id], kwargs, SceneAttrs, {"order_index"})
             counted == IF "content" \in DOMAIN kwargs
                        THEN [assigned EXCEPT !.word_count = WordCountOf(kwargs["content"])]
                        ELSE assigned
             updated == [scenes EXCEPT ![scene_id] = counted]
             r == SceneCRUD_update_chapter_word_count(projects, chapters, updated,
                                                      autoflush, counted.chapter_id)
         IN  /\ scenes' = updated
             /\ chapters' = r.chapters
             /\ projects' = r.projects
             /\ last' = Call("SceneCRUD.update", "Entity",
                             r.stamped \cup {"scene"})
             /\ UNCHANGED <<autoflush, inflight>>
    ELSE /\ last' = Call("SceneCRUD.update", "None", {})
         /\ UNCHANGED <<projects, chapters, scenes, autoflush, inflight>>

\* Variant: the rollup runs before the delete reaches the database.
SceneCRUD_delete_StaleRollup(scene_id) ==
    IF scene_id \in DOMAIN scenes
    THEN LET chapter_id == scenes[scene_id].chapter_id
             order_index == scenes[scene_id].order_index
             kept == Remove(scenes, {scene_id})
             reordered == ShiftOrder(kept, ScenesOf(kept, chapter_id),
                                     order_index + 1, TopOrder(kept), -1)
             r == SceneCRUD_update_chapter_word_count(projects, chapters, scenes,
                                                      autoflush, chapter_id)
         IN  /\ scenes' = reordered
             /\ chapters' = r.chapters
             /\ projects' = r.projects
             /\ last' = Call("SceneCRUD.delete", "True", r.stamped)
             /\ UNCHANGED <<autoflush, inflight>>
    ELSE /\ last' = Call("SceneCRUD.delete", "False", {})
         /\ UNCHANGED <<projects, chapters, scenes, autoflush, inflight>>

SceneCRUD_delete(scene_id) ==
    IF scene_id \in DOMAIN scenes
    THEN LET chapter_id == scenes[scene_id].chapter_id
             order_index == scenes[scene_id].order_index
             kept == Remove(scenes, {scene_id})
             reordered == ShiftOrder(kept, ScenesOf(kept, chapter_id),
                                     order_index + 1, TopOrder(kept), -1)
             r == SceneCRUD_update_chapter_word_count(projects, chapters, reordered,
                                                      autoflush, chapter_id)
         IN  /\ scenes' = reordered
             /\ chapters' = r.chapters
             /\ projects' = r.projects
             /\ last' = Call("SceneCRUD.delete", "True", r.stamped)
             /\ UNCHANGED <<autoflush, inflight>>
    ELSE /\ last' = Call("SceneCRUD.delete", "False", {})
         /\ UNCHANGED <<projects, chapters, scenes, autoflush, inflight>>

(* ----------------------- the rollups, called directly ------------------- *)

\* A rollup returns None; the state after it is what the rollup committed.
RollupCall(op, r) ==
    /\ projects' = r.projects
    /\ chapters' = r.chapters
    /\ last' = Call(op, "None", r.stamped)
    /\ UNCHANGED <<scenes, autoflush, inflight>>

Do_ChapterCRUD_update_project_word_count(project_id) ==
    RollupCall("ChapterCRUD._update_project_word_count",
               ChapterCRUD_update_project_word_count(projects, chapters, chapters,
                                                     autoflush, project_id))

Do_ChapterCRUD_update_chapter_word_count(chapter_id) ==
    RollupCall("ChapterCRUD._update_chapter_word_count",
               ChapterCRUD_update_chapter_word_count(projects, chapters, scenes,
                                                     autoflush, chapter_id))

\* Variant: the test `if chapter:` is missing and chapter.word_count is assigned
\* on None.
Do_SceneCRUD_update_chapter_word_count_Unguarded(chapter_id) ==
    IF chapter_id \in DOMAIN chapters
    THEN RollupCall("SceneCRUD._update_chapter_word_count",
                    SceneCRUD_update_chapter_word_count(projects, chapters, scenes,
                                                        autoflush, chapter_id))
    ELSE /\ last' = Call("SceneCRUD._update_chapter_word_count", "AttributeError", {})
         /\ UNCHANGED <<projects, chapters, scenes, autoflush, inflight>>

Do_SceneCRUD_update_chapter_word_count(chapter_id) ==
    RollupCall("SceneCRUD._update_chapter_word_count",
               SceneCRUD_update_chapter_word_count(projects, chapters, scenes,
                                                   autoflush, chapter_id))

(* ------------------------------ routers --------------------------------- *)

\* .order_by(X.order_index).all(): the ids of the rows of the group in ascending
\* order_index (rows of equal order_index in the order of their rowid).
\* Variant: the query has no ORDER BY and returns the rows in rowid order.
RECURSIVE OrderedBy_Rowid(_, _)
OrderedBy_Rowid(table, group) ==
    IF group = {} THEN << >>
    ELSE LET first == CHOOSE x \in group : \A y \in group : x <= y
         IN  <<first>> \o OrderedBy_Rowid(table, group \ {first})

RECURSIVE OrderedBy(_, _)
OrderedBy(table, group) ==
    IF group = {} THEN << >>
    ELSE LET first == CHOOSE x \in group : \A y \in group :
                          \/ table[x].order_index < table[y].order_index
                          \/ table[x].order_index = table[y].order_index /\ x <= y
         IN  <<first>> \o OrderedBy(table, group \ {first})

ChapterCRUD_get_by_id(chs, chapter_id) ==
    IF chapter_id \in DOMAIN chs THEN Some(chs[chapter_id]) ELSE None
ChapterCRUD_get_by_project(chs, project_id) == OrderedBy(chs, ChaptersOf(chs, project_id))

SceneCRUD_get_by_id(scs, scene_id) ==
    IF scene_id \in DOMAIN scs THEN Some(scs[scene_id]) ELSE None
SceneCRUD_get_by_chapter(scs, chapter_id) == OrderedBy(scs, ScenesOf(scs, chapter_id))

\* raise HTTPException(status_code): the endpoint answers with the code and has
\* written nothing.
Raise(endpoint, status_code) ==
    /\ last' = Call(endpoint, status_code, {})
    /\ UNCHANGED <<projects, chapters, scenes, autoflush, inflight>>

\* new_order < 1 is rejected by the schema (Field(ge=1)) before the body runs.
reorder_chapter(chapter_id, new_order) ==
    LET db_chapter == ChapterCRUD_get_by_id(chapters, chapter_id)
    IN  IF new_order < 1 \/ chapter_id <= 0 THEN Raise("reorder_chapter", "422")
        ELSE IF IsNone(db_chapter) THEN Raise("reorder_chapter", "404")
        ELSE LET chapters_in_project ==
                     ChapterCRUD_get_by_project(chapters, Val(db_chapter).project_id)
                 max_order == Len(chapters_in_project)
             IN  IF new_order > max_order THEN Raise("reorder_chapter", "422")
                 ELSE /\ chapters' = Reorder(chapters,
                                             ChaptersOf(chapters, Val(db_chapter).project_id),
                                             chapter_id, new_order)
                      /\ last' = Call("reorder_chapter", "200", {"chapter"})
                      /\ UNCHANGED <<projects, scenes, autoflush, inflight>>

\* Variant: the comparison of new_order with the number of siblings is missing.
reorder_scene_NoRangeCheck(scene_id, new_order) ==
    LET db_scene == SceneCRUD_get_by_id(scenes, scene_id)
    IN  IF new_order < 1 \/ scene_id <= 0 THEN Raise("reorder_scene", "422")
        ELSE IF IsNone(db_scene) THEN Raise("reorder_scene", "404")
        ELSE /\ scenes' = Reorder(scenes, ScenesOf(scenes, Val(db_scene).chapter_id),
                                  scene_id, new_order)
             /\ last' = Call("reorder_scene", "200", {"scene"})
             /\ UNCHANGED <<projects, chapters, autoflush, inflight>>

reorder_scene(scene_id, new_order) ==
    LET db_scene == SceneCRUD_get_by_id(scenes, scene_id)
    IN  IF new_order < 1 \/ scene_id <= 0 THEN Raise("reorder_scene", "422")
        ELSE IF IsNone(db_scene) THEN Raise("reorder_scene", "404")
        ELSE LET scenes_in_chapter ==
                     SceneCRUD_get_by_chapter(scenes, Val(db_scene).chapter_id)
                 max_order == Len(scenes_in_chapter)
             IN  IF new_order > max_order THEN Raise("reorder_scene", "422")
                 ELSE /\ scenes' = Reorder(scenes,
                                           ScenesOf(scenes, Val(db_scene).chapter_id),
                                           scene_id, new_order)
                      /\ last' = Call("reorder_scene", "200", {"scene"})
                      /\ UNCHANGED <<projects, chapters, autoflush, inflight>>

\* Variant: the test of is_active is missing.
delete_project_NoConflict(project_id) ==
    LET db_project == ProjectCRUD_get_by_id(projects, project_id)
    IN  IF project_id <= 0 THEN Raise("delete_project", "422")
        ELSE IF IsNone(db_project) THEN Raise("delete_project", "404")
        ELSE /\ projects' = [projects EXCEPT ![project_id].is_active = FALSE]
             /\ last' = Call("delete_project", "200", {"project"})
             /\ UNCHANGED <<chapters, scenes, autoflush, inflight>>

delete_project(project_id) ==
    LET db_project == ProjectCRUD_get_by_id(projects, project_id)
    IN  IF project_id <= 0 THEN Raise("delete_project", "422")
        ELSE IF IsNone(db_project) THEN Raise("delete_project", "404")
        ELSE IF ~Val(db_project).is_active THEN Raise("delete_project", "400")
        ELSE /\ projects' = [projects EXCEPT ![project_id].is_active = FALSE]
             /\ last' = Call("delete_project", "200", {"project"})
             /\ UNCHANGED <<chapters, scenes, autoflush, inflight>>

\* The endpoints below answer with what the CRUD call returns once their own tests
\* have passed: the step is then the step of that CRUD call.

create_project == ProjectCRUD_create

\* `if not update_data`: no field was set in the request body.
update_project(project_id, update_data) ==
    IF project_id <= 0 THEN Raise("update_project", "422")
    ELSE IF IsNone(ProjectCRUD_get_by_id(projects, project_id))
         THEN Raise("update_project", "404")
    ELSE IF DOMAIN update_data = {} THEN Raise("update_project", "422")
    ELSE ProjectCRUD_update(project_id, update_data)

\* Variant: the lookup of the project is missing.
create_chapter_NoParentCheck(project_id) ==
    IF project_id <= 0 THEN Raise("create_chapter", "422")
    ELSE ChapterCRUD_create(project_id)

\* ChapterCreate.project_id is Field(gt=0).
create_chapter(project_id) ==
    IF project_id <= 0 THEN Raise("create_chapter", "422")
    ELSE IF IsNone(ProjectCRUD_get_by_id(projects, project_id))
         THEN Raise("create_chapter", "404")
    ELSE ChapterCRUD_create(project_id)

update_chapter(chapter_id, update_data) ==
    IF chapter_id <= 0 THEN Raise("update_chapter", "422")
    ELSE IF IsNone(ChapterCRUD_get_by_id(chapters, chapter_id))
         THEN Raise("update_chapter", "404")
    ELSE IF DOMAIN update_data = {} THEN Raise("update_chapter", "422")
    ELSE ChapterCRUD_update(chapter_id, update_data)

delete_chapter(chapter_id) ==
    IF chapter_id <= 0 THEN Raise("delete_chapter", "422")
    ELSE IF IsNone(ChapterCRUD_get_by_id(chapters, chapter_id))
         THEN Raise("delete_chapter", "404")
    ELSE ChapterCRUD_delete(chapter_id)

\* SceneCreate.chapter_id is Field(gt=0).
create_scene(chapter_id, title, content) ==
    IF chapter_id <= 0 THEN Raise("create_scene", "422")
    ELSE IF IsNone(ChapterCRUD_get_by_id(chapters, chapter_id))
         THEN Raise("create_scene", "404")
    ELSE SceneCRUD_create(chapter_id, title, content)

update_scene(scene_id, update_data) ==
    IF scene_id <= 0 THEN Raise("update_scene", "422")
    ELSE IF IsNone(SceneCRUD_get_by_id(scenes, scene_id))
         THEN Raise("update_scene", "404")
    ELSE IF DOMAIN update_data = {} THEN Raise("update_scene", "422")
    ELSE SceneCRUD_update(scene_id, update_data)

\* update_data = {"content": content}, with "title" when a title is sent.
update_scene_content(scene_id, content, title) ==
    IF scene_id <= 0 THEN Raise("update_scene_content", "422")
    ELSE IF IsNone(SceneCRUD_get_by_id(scenes, scene_id))
         THEN Raise("update_scene_content", "404")
    ELSE SceneCRUD_update(scene_id,
                          IF IsNone(title) THEN [content |-> content]
                          ELSE [content |-> content, title |-> title])

delete_scene(scene_id) ==
    IF scene_id <= 0 THEN Raise("delete_scene", "422")
    ELSE IF IsNone(SceneCRUD_get_by_id(scenes, scene_id))
         THEN Raise("delete_scene", "404")
    ELSE SceneCRUD_delete(scene_id)

(* ------------------------------ callers --------------------------------- *)

\* Ids a caller may pass: every id the table can hold, so also ids of rows that
\* do not exist (or no longer exist).
ProjectIds == 1..MaxProjects
ChapterIds == 1..MaxChapters
SceneIds == 1..MaxScenes

Titles == {Some(<<"T">>)}
Contents == {None, Some(<< >>), Some(<<" ", "a", "\t", " ", "b", "\n">>)}

ProjectKwargs == {[is_active |-> b] : b \in BOOLEAN} \cup {[title |-> Some(<<"T">>)]}
ChapterKwargs == {[title |-> Some(<<"T">>)], [title |-> Some(<<"T">>), order_index |-> 9]}
SceneKwargs == {[title |-> t] : t \in Titles}
               \cup {[content |-> c] : c \in Contents}
               \cup {[title |-> Some(<<"T">>), order_index |-> 9]}

\* The callers check the parent before create (routers/chapters.py create_chapter,
\* routers/scenes.py create_scene) and the range of new_order before update_order
\* (reorder_chapter, reorder_scene; new_order >= 1 by the schema).
Next ==
    \/ NextId(projects) <= MaxProjects /\ ProjectCRUD_create
    \/ \E p \in ProjectIds, kw \in ProjectKwargs : ProjectCRUD_update(p, kw)
    \/ \E p \in ProjectIds : ProjectCRUD_delete(p)
    \/ \E p \in DOMAIN projects : NextId(chapters) <= MaxChapters /\ ChapterCRUD_create(p)
    \/ \E c \in ChapterIds, n \in 1..MaxChapters :
          /\ c \in DOMAIN chapters =>
                n <= Cardinality(ChaptersOf(chapters, chapters[c].project_id))
          /\ ChapterCRUD_update_order(c, n)
    \/ \E c \in ChapterIds, kw \in ChapterKwargs : ChapterCRUD_update(c, kw)
    \/ \E c \in ChapterIds : ChapterCRUD_delete(c)
    \/ \E c \in DOMAIN chapters, t \in Titles, x \in Contents :
          NextId(scenes) <= MaxScenes /\ SceneCRUD_create(c, t, x)
    \/ \E s \in SceneIds, n \in 1..MaxScenes :
          /\ s \in DOMAIN scenes =>
                n <= Cardinality(ScenesOf(scenes, scenes[s].chapter_id))
          /\ SceneCRUD_update_order(s, n)
    \/ \E s \in SceneIds, kw \in SceneKwargs : SceneCRUD_update(s, kw)
    \/ \E s \in SceneIds : SceneCRUD_delete(s)

Spec == Init /\ [][Next]_vars

\* The ordering operations alone, on rows that exist: create, update_order and
\* delete of chapters and scenes (scenes without content).
NextOrder ==
    \/ NextId(projects) <= MaxProjects /\ ProjectCRUD_create
    \/ \E p \in DOMAIN projects : NextId(chapters) <= OrdChapters /\ ChapterCRUD_create(p)
    \/ \E c \in DOMAIN chapters :
          \E n \in 1..Cardinality(ChaptersOf(chapters, chapters[c].project_id)) :
             ChapterCRUD_update_order(c, n)
    \/ \E c \in DOMAIN chapters : ChapterCRUD_delete(c)
    \/ \E c \in DOMAIN chapters, t \in Titles :
          NextId(scenes) <= OrdScenes /\ SceneCRUD_create(c, t, None)
    \/ \E s \in DOMAIN scenes :
          \E n \in 1..Cardinality(ScenesOf(scenes, scenes[s].chapter_id)) :
             SceneCRUD_update_order(s, n)
    \/ \E s \in DOMAIN scenes : SceneCRUD_delete(s)

SpecOrder == Init /\ [][NextOrder]_vars

\* The operations that write word counts, on rows that exist.
NextWords ==
    \/ NextId(projects) <= MaxProjects /\ ProjectCRUD_create
    \/ \E p \in DOMAIN projects : NextId(chapters) <= MaxChapters /\ ChapterCRUD_create(p)
    \/ \E c \in DOMAIN chapters : ChapterCRUD_delete(c)
    \/ \E c \in DOMAIN chapters, t \in Titles, x \in Contents :
          NextId(scenes) <= MaxScenes /\ SceneCRUD_create(c, t, x)
    \/ \E s \in DOMAIN scenes, kw \in SceneKwargs : SceneCRUD_update(s, kw)
    \/ \E s \in DOMAIN scenes : SceneCRUD_delete(s)

SpecWords == Init /\ [][NextWords]_vars

\* The word-count operations together with the generic update of a chapter.
NextFields ==
    \/ NextWords
    \/ \E c \in DOMAIN chapters, kw \in ChapterKwargs : ChapterCRUD_update(c, kw)

SpecFields == Init /\ [][NextFields]_vars

\* The same with the update and the soft delete of a project.
NextProjects ==
    \/ NextFields
    \/ \E p \in DOMAIN projects, kw \in ProjectKwargs : ProjectCRUD_update(p, kw)
    \/ \E p \in DOMAIN projects : ProjectCRUD_delete(p)

SpecProjects == Init /\ [][NextProjects]_vars

\* The word-count operations together with the three rollups called on their own,
\* with the id of a row that exists or of one that does not.
NextRollup ==
    \/ NextWords
    \/ \E p \in ProjectIds : Do_ChapterCRUD_update_project_word_count(p)
    \/ \E c \in ChapterIds : Do_ChapterCRUD_update_chapter_word_count(c)
    \/ \E c \in ChapterIds : Do_SceneCRUD_update_chapter_word_count(c)

SpecRollup == Init /\ [][NextRollup]_vars

\* What a request may carry: a project id from 0 up, any new_order from 0 to one
\* past the largest group.
RequestProjectIds == 0..MaxProjects
RequestChapterOrders == 0..(MaxChapters + 1)
RequestSceneOrders == 0..(MaxScenes + 1)

\* The reorder endpoints and delete_project, over stores built by create.
NextRouter ==
    \/ NextId(projects) <= MaxProjects /\ ProjectCRUD_create
    \/ \E p \in DOMAIN projects : NextId(chapters) <= MaxChapters /\ ChapterCRUD_create(p)
    \/ \E c \in DOMAIN chapters, t \in Titles :
          NextId(scenes) <= MaxScenes /\ SceneCRUD_create(c, t, None)
    \/ \E c \in ChapterIds, n \in RequestChapterOrders : reorder_chapter(c, n)
    \/ \E s \in SceneIds, n \in RequestSceneOrders : reorder_scene(s, n)
    \/ \E p \in RequestProjectIds : delete_project(p)

SpecRouter == Init /\ [][NextRouter]_vars

\* update_order called directly, with any new_order a request may carry, over
\* stores built by create.
NextRange ==
    \/ NextId(projects) <= MaxProjects /\ ProjectCRUD_create
    \/ \E p \in DOMAIN projects : NextId(chapters) <= MaxChapters /\ ChapterCRUD_create(p)
    \/ \E c \in DOMAIN chapters, t \in Titles :
          NextId(scenes) <= MaxScenes /\ SceneCRUD_create(c, t, None)
    \/ \E c \in DOMAIN chapters, n \in RequestChapterOrders : ChapterCRUD_update_order(c, n)
    \/ \E s \in DOMAIN scenes, n \in RequestSceneOrders : SceneCRUD_update_order(s, n)

SpecRange == Init /\ [][NextRange]_vars

\* The bodies the update schemas let through (model_dump(exclude_unset=True)): no
\* field at all, or fields of ProjectUpdate, ChapterUpdate, SceneUpdate.
ProjectUpdateData == {<< >>} \cup {[is_active |-> b] : b \in BOOLEAN}
ChapterUpdateData == {<< >>, [title |-> Some(<<"T">>)]}
SceneUpdateData == {<< >>, [title |-> Some(<<"T">>)]} \cup {[content |-> c] : c \in Contents}

\* A project id past the last one the table can hold never resolves.
ApiProjectIds == 0..(ApiProjects + 1)
RequestChapterIds == 0..MaxChapters
RequestSceneIds == 0..MaxScenes

\* Every writing endpoint of the three routers, with ids that resolve and ids that
\* do not.
NextApi ==
    \/ NextId(projects) <= ApiProjects /\ create_project
    \/ \E p \in ApiProjectIds, d \in ProjectUpdateData : update_project(p, d)
    \/ \E p \in ApiProjectIds : delete_project(p)
    \/ \E p \in ApiProjectIds :
          /\ p \in DOMAIN projects => NextId(chapters) <= MaxChapters
          /\ create_chapter(p)
    \/ \E c \in RequestChapterIds, d \in ChapterUpdateData : update_chapter(c, d)
    \/ \E c \in RequestChapterIds, n \in RequestChapterOrders : reorder_chapter(c, n)
    \/ \E c \in RequestChapterIds : delete_chapter(c)
    \/ \E c \in RequestChapterIds, t \in Titles, x \in Contents :
          /\ c \in DOMAIN chapters => NextId(scenes) <= MaxScenes
          /\ create_scene(c, t, x)
    \/ \E s \in RequestSceneIds, d \in SceneUpdateData : update_scene(s, d)
    \/ \E s \in RequestSceneIds, x \in Contents \ {None} :
          update_scene_content(s, x, None)
    \/ \E s \in RequestSceneIds, n \in RequestSceneOrders : reorder_scene(s, n)
    \/ \E s \in RequestSceneIds : delete_scene(s)

SpecApi == Init /\ [][NextApi]_vars

\* The titles SceneCRUD.create may be given: none, the empty string, a title.
CreateTitles == {None, Some(<< >>), Some(<<"T">>)}

\* Scenes created with and without a title, moved and deleted, in one project.
NextTitles ==
    \/ NextId(projects) <= ApiProjects /\ ProjectCRUD_create
    \/ \E p \in DOMAIN projects : NextId(chapters) <= MaxChapters /\ ChapterCRUD_create(p)
    \/ \E c \in DOMAIN chapters, t \in CreateTitles :
          NextId(scenes) <= OrdScenes /\ SceneCRUD_create(c, t, None)
    \/ \E s \in DOMAIN scenes :
          \E n \in 1..Cardinality(ScenesOf(scenes, scenes[s].chapter_id)) :
             SceneCRUD_update_order(s, n)
    \/ \E s \in DOMAIN scenes : SceneCRUD_delete(s)

SpecTitles == Init /\ [][NextTitles]_vars

\* Keyword arguments the CRUD update takes from a caller that does not go through
\* the update schemas: the parent back-reference is an attribute hasattr() finds.
ChapterRawKwargs == {[project_id |-> p] : p \in ProjectIds}
SceneRawKwargs == {[chapter_id |-> c] : c \in ChapterIds}

\* create and the generic update called with such arguments, on rows that exist.
NextRaw ==
    \/ NextId(projects) <= MaxProjects /\ ProjectCRUD_create
    \/ \E p \in DOMAIN projects : NextId(chapters) <= MaxChapters /\ ChapterCRUD_create(p)
    \/ \E c \in DOMAIN chapters, x \in Contents :
          NextId(scenes) <= MaxScenes /\ SceneCRUD_create(c, None, x)
    \/ \E c \in DOMAIN chapters, kw \in ChapterRawKwargs : ChapterCRUD_update(c, kw)
    \/ \E s \in DOMAIN scenes, kw \in SceneRawKwargs : SceneCRUD_update(s, kw)

SpecRaw == Init /\ [][NextRaw]_vars

\* The word-count operations together with the moves, on rows that exist.
NextMoves ==
    \/ NextWords
    \/ \E c \in DOMAIN chapters :
          \E n \in 1..Cardinality(ChaptersOf(chapters, chapters[c].project_id)) :
             ChapterCRUD_update_order(c, n)
    \/ \E s \in DOMAIN scenes :
          \E n \in 1..Cardinality(ScenesOf(scenes, scenes[s].chapter_id)) :
             SceneCRUD_update_order(s, n)

SpecMoves == Init /\ [][NextMoves]_vars

\* Two callers reordering scenes: the rows are created while nobody is inside
\* update_order, then each caller takes the steps of its call in any interleaving
\* with the other's.
NextRace ==
    \/ inflight = Quiet /\ NextId(projects) <= ApiProjects /\ ProjectCRUD_create
    \/ \E p \in DOMAIN projects :
          inflight = Quiet /\ NextId(chapters) <= MaxChapters /\ ChapterCRUD_create(p)
    \/ \E c \in DOMAIN chapters :
          /\ \A k \in Sessions : inflight.calls[k].pc = "idle"
          /\ NextId(scenes) <= OrdScenes
          /\ SceneCRUD_create(c, None, None)
    \/ \E k \in Sessions, s \in DOMAIN scenes :
          \E n \in 1..Cardinality(ScenesOf(scenes, scenes[s].chapter_id)) :
             SceneCRUD_update_order_read(k, s, n)
    \/ \E k \in Sessions : SceneCRUD_update_order_shift(k)
    \/ \E k \in Sessions : SceneCRUD_update_order_commit(k)

SpecRace == Init /\ [][NextRace]_vars

(* ------------------------------ properties ------------------------------ *)

OrderOf(table, group) == {table[x].order_index : x \in group}

\* The order_index values of a sibling group are exactly 1..count, each once.
Dense(table, group) ==
    /\ OrderOf(table, group) = 1..Cardinality(group)
    /\ \A x \in group, y \in group : table[x].order_index = table[y].order_index => x = y

\* Two rows of the group stand in the opposite order to their ids: only a move
\* produces this (create appends with the largest id, delete keeps the order).
Moved(table, group) ==
    \E x \in group, y \in group : x < y /\ table[x].order_index > table[y].order_index

\* C1: after any sequence of create, update_order (1 <= new_order <= sibling count)
\* and delete calls, the order_index values of the chapters of every project are
\* exactly 1..N and those of the scenes of every chapter exactly 1..M: no gap, no
\* duplicate.
C1_OrderDense ==
    /\ \A c \in DOMAIN chapters :
          Dense(chapters, ChaptersOf(chapters, chapters[c].project_id))
    /\ \A p \in DOMAIN projects : Dense(chapters, ChaptersOf(chapters, p))
    /\ \A s \in DOMAIN scenes : Dense(scenes, ScenesOf(scenes, scenes[s].chapter_id))
    /\ \A c \in DOMAIN chapters : Dense(scenes, ScenesOf(scenes, c))

C1_Witness ==
    /\ \E c \in DOMAIN chapters :
          /\ Cardinality(ScenesOf(scenes, c)) = OrdScenes
          /\ Moved(scenes, ScenesOf(scenes, c))
    /\ \E p \in DOMAIN projects :
          /\ Cardinality(ChaptersOf(chapters, p)) >= 2
          /\ Moved(chapters, ChaptersOf(chapters, p))
    /\ last.op \in {"SceneCRUD.delete", "ChapterCRUD.delete"}
    /\ last.ret = "True"

\* C2: after any sequence of SceneCRUD create, update (with or without content) and
\* delete calls, every chapter's word_count is the sum of the word_count of the
\* scenes now in it.
C2_ChapterWordCount ==
    \A c \in DOMAIN chapters : chapters[c].word_count = SumSceneWords(scenes, c)

C2_Witness ==
    /\ last.op = "SceneCRUD.delete"
    /\ last.ret = "True"
    /\ \E c \in DOMAIN chapters : chapters[c].word_count > 0 /\ ScenesOf(scenes, c) # {}

\* C3: after any sequence of chapter create/delete and scene create/content-update/
\* delete calls, every project's current_word_count is the sum of the word_count of
\* the chapters now in it.
C3_ProjectWordCount ==
    \A p \in DOMAIN projects : projects[p].current_word_count = SumChapterWords(chapters, p)

\* The number of whitespace-delimited non-empty tokens: the positions where a token
\* starts.
Tokens(content) ==
    IF content = None THEN 0
    ELSE LET text == Val(content)
         IN  Cardinality({i \in 1..Len(text) :
                 /\ text[i] \notin Whitespace
                 /\ (i = 1 \/ text[i - 1] \in Whitespace)})

\* C4: after create and after every update, each scene's word_count is the number
\* of whitespace-delimited non-empty tokens of its content, 0 for "" and for None.
C4_SceneWordCount ==
    \A s \in DOMAIN scenes : scenes[s].word_count = Tokens(scenes[s].content)

C4_Witness ==
    /\ last.op = "SceneCRUD.update"
    /\ last.ret = "Entity"
    /\ \E s \in DOMAIN scenes : scenes[s].word_count = 2
    /\ \E s \in DOMAIN scenes : scenes[s].content = Some(<< >>) /\ scenes[s].word_count = 0

\* The order_index of every row of the group other than the moved one goes from
\* `before` to `after` by delta inside lo..hi and stays as it is outside.
ShiftedExactly(before, after, group, moved, lo, hi, delta) ==
    \A x \in group \ {moved} :
        after[x].order_index =
            IF lo <= before[x].order_index /\ before[x].order_index <= hi
            THEN before[x].order_index + delta
            ELSE before[x].order_index

\* The rows of the group other than `moved` stand in the same relative order.
SameRelativeOrder(before, after, group, moved) ==
    \A x \in group \ {moved}, y \in group \ {moved} :
        before[x].order_index < before[y].order_index
            <=> after[x].order_index < after[y].order_index

\* What a move of row `id` to new_order must do to its group, and to nothing else.
MovedTo(before, after, group, id, new_order, lo, hi, delta) ==
    /\ DOMAIN after = DOMAIN before
    /\ after[id].order_index = new_order
    /\ ShiftedExactly(before, after, group, id, lo, hi, delta)
    /\ SameRelativeOrder(before, after, group, id)

\* C5: update_order with old_order < new_order <= sibling count lowers by exactly 1
\* the order_index of exactly the siblings with old_order < order_index <= new_order,
\* leaves the other siblings as they are and puts the moved row at new_order (the
\* first of N moved to N leaves the others at 1..N-1 in their relative order).
C5_MoveDown ==
    [][ /\ \A s \in DOMAIN scenes, n \in 1..OrdScenes :
              ( /\ scenes[s].order_index < n
                /\ n <= Cardinality(ScenesOf(scenes, scenes[s].chapter_id))
                /\ SceneCRUD_update_order(s, n) )
              => MovedTo(scenes, scenes', ScenesOf(scenes, scenes[s].chapter_id), s, n,
                         scenes[s].order_index + 1, n, -1)
        /\ \A c \in DOMAIN chapters, n \in 1..OrdChapters :
              ( /\ chapters[c].order_index < n
                /\ n <= Cardinality(ChaptersOf(chapters, chapters[c].project_id))
                /\ ChapterCRUD_update_order(c, n) )
              => MovedTo(chapters, chapters',
                         ChaptersOf(chapters, chapters[c].project_id), c, n,
                         chapters[c].order_index + 1, n, -1)
      ]_vars

\* Row `first` has the smallest id of a group of n rows and stands last, the others
\* in the order of their ids.
FirstNowLast(table, group, n) ==
    /\ Cardinality(group) = n
    /\ \E first \in group :
          /\ \A x \in group : first <= x
          /\ table[first].order_index = n
          /\ \A x \in group \ {first}, y \in group \ {first} :
                x < y => table[x].order_index < table[y].order_index

C5_Witness ==
    /\ last.op = "SceneCRUD.update_order"
    /\ last.ret = "True"
    /\ \E c \in DOMAIN chapters : FirstNowLast(scenes, ScenesOf(scenes, c), OrdScenes)
    /\ \E p \in DOMAIN projects : FirstNowLast(chapters, ChaptersOf(chapters, p), OrdChapters)

\* C6: update_order with 1 <= new_order < old_order raises by exactly 1 the
\* order_index of exactly the siblings with new_order <= order_index < old_order,
\* leaves the other siblings as they are and puts the moved row at new_order.
C6_MoveUp ==
    [][ /\ \A s \in DOMAIN scenes, n \in 1..OrdScenes :
              ( /\ n < scenes[s].order_index
                /\ SceneCRUD_update_order(s, n) )
              => MovedTo(scenes, scenes', ScenesOf(scenes, scenes[s].chapter_id), s, n,
                         n, scenes[s].order_index - 1, 1)
        /\ \A c \in DOMAIN chapters, n \in 1..OrdChapters :
              ( /\ n < chapters[c].order_index
                /\ ChapterCRUD_update_order(c, n) )
              => MovedTo(chapters, chapters',
                         ChaptersOf(chapters, chapters[c].project_id), c, n,
                         n, chapters[c].order_index - 1, 1)
      ]_vars

\* Row `newest` has the largest id of a group of n rows and stands first, the others
\* in the order of their ids.
LastNowFirst(table, group, n) ==
    /\ Cardinality(group) = n
    /\ \E newest \in group :
          /\ \A x \in group : x <= newest
          /\ table[newest].order_index = 1
          /\ \A x \in group \ {newest}, y \in group \ {newest} :
                x < y => table[x].order_index < table[y].order_index

C6_Witness ==
    /\ last.op = "ChapterCRUD.update_order"
    /\ last.ret = "True"
    /\ \E c \in DOMAIN chapters : LastNowFirst(scenes, ScenesOf(scenes, c), OrdScenes)
    /\ \E p \in DOMAIN projects : LastNowFirst(chapters, ChaptersOf(chapters, p), OrdChapters)

\* C7: update_order with new_order equal to the row's order_index returns True and
\* leaves the order_index of every row unchanged, however often it is repeated.
C7_MoveToSamePlace ==
    [][ /\ \A s \in DOMAIN scenes :
              SceneCRUD_update_order(s, scenes[s].order_index)
              => /\ last'.ret = "True"
                 /\ DOMAIN scenes' = DOMAIN scenes
                 /\ \A x \in DOMAIN scenes : scenes'[x].order_index = scenes[x].order_index
        /\ \A c \in DOMAIN chapters :
              ChapterCRUD_update_order(c, chapters[c].order_index)
              => /\ last'.ret = "True"
                 /\ DOMAIN chapters' = DOMAIN chapters
                 /\ \A x \in DOMAIN chapters :
                       chapters'[x].order_index = chapters[x].order_index
      ]_vars

C7_Witness ==
    /\ last.op = "SceneCRUD.update_order"
    /\ last.ret = "True"
    /\ \E c \in DOMAIN chapters :
          /\ Cardinality(ScenesOf(scenes, c)) = OrdScenes
          /\ ~Moved(scenes, ScenesOf(scenes, c))

\* What a delete of row `id` must do to its group.
DeletedFrom(before, after, group, id) ==
    /\ DOMAIN after = DOMAIN before \ {id}
    /\ \A x \in group \ {id} :
          after[x].order_index =
              IF before[x].order_index > before[id].order_index
              THEN before[x].order_index - 1
              ELSE before[x].order_index

\* C8: delete of an existing chapter or scene removes the row, lowers by exactly 1
\* the order_index of every sibling that stood after it, leaves the siblings before
\* it as they are and returns True.
C8_DeleteShifts ==
    [][ /\ \A s \in DOMAIN scenes :
              SceneCRUD_delete(s)
              => /\ DeletedFrom(scenes, scenes', ScenesOf(scenes, scenes[s].chapter_id), s)
                 /\ last'.ret = "True"
        /\ \A c \in DOMAIN chapters :
              ChapterCRUD_delete(c)
              => /\ DeletedFrom(chapters, chapters',
                                ChaptersOf(chapters, chapters[c].project_id), c)
                 /\ last'.ret = "True"
      ]_vars

\* A group that lost a row: ids 1 and 3 are left of a project's chapters, at 1 and 2.
C8_Witness ==
    /\ last.op = "ChapterCRUD.delete"
    /\ last.ret = "True"
    /\ \E p \in DOMAIN projects :
          /\ ChaptersOf(chapters, p) = {1, 3}
          /\ chapters[1].order_index = 1
          /\ chapters[3].order_index = 2

\* The index a new row of the group must get.
AppendIndex(table, group) ==
    IF group = {} THEN 1
    ELSE (CHOOSE m \in OrderOf(table, group) : \A o \in OrderOf(table, group) : o <= m) + 1

\* What a create must do to the table: one new row, at AppendIndex, and the
\* order_index of no other row changed.
Appended(before, after, group) ==
    /\ \E id \in DOMAIN after \ DOMAIN before :
          /\ DOMAIN after = DOMAIN before \cup {id}
          /\ after[id].order_index = AppendIndex(before, group)
    /\ \A x \in DOMAIN before : after[x].order_index = before[x].order_index

\* C9: create gives the new chapter or scene the largest order_index of its sibling
\* group plus 1, or 1 in an empty group, and changes the order_index of no row.
C9_CreateAppends ==
    [][ /\ \A p \in DOMAIN projects :
              ChapterCRUD_create(p)
              => /\ Appended(chapters, chapters', ChaptersOf(chapters, p))
                 /\ \A x \in DOMAIN scenes : scenes'[x].order_index = scenes[x].order_index
        /\ \A c \in DOMAIN chapters, t \in Titles, x \in Contents :
              SceneCRUD_create(c, t, x)
              => /\ Appended(scenes, scenes', ScenesOf(scenes, c))
                 /\ \A y \in DOMAIN chapters :
                       chapters'[y].order_index = chapters[y].order_index
      ]_vars

\* A scene created as the first of its chapter while another chapter has scenes.
C9_Witness ==
    /\ last.op = "SceneCRUD.create"
    /\ \E c \in DOMAIN chapters, d \in DOMAIN chapters :
          /\ Cardinality(ScenesOf(scenes, c)) = 1
          /\ Cardinality(ScenesOf(scenes, d)) >= 2
          /\ \A s \in ScenesOf(scenes, c) :
                /\ scenes[s].order_index = 1
                /\ \A y \in ScenesOf(scenes, d) : y < s

Untouched == UNCHANGED <<projects, chapters, scenes>>

\* C10: every update, update_order and delete of ProjectCRUD, ChapterCRUD and
\* SceneCRUD whose id resolves to no row returns its sentinel (None for update,
\* False for update_order and delete), raises nothing and leaves every project,
\* chapter and scene as it was.
C10_NotFound ==
    [][ /\ \A p \in ProjectIds \ DOMAIN projects :
              /\ \A kw \in ProjectKwargs :
                    ProjectCRUD_update(p, kw) => last'.ret = "None" /\ Untouched
              /\ ProjectCRUD_delete(p) => last'.ret = "False" /\ Untouched
        /\ \A c \in ChapterIds \ DOMAIN chapters :
              /\ \A kw \in ChapterKwargs :
                    ChapterCRUD_update(c, kw) => last'.ret = "None" /\ Untouched
              /\ \A n \in 1..MaxChapters :
                    ChapterCRUD_update_order(c, n) => last'.ret = "False" /\ Untouched
              /\ ChapterCRUD_delete(c) => last'.ret = "False" /\ Untouched
        /\ \A s \in SceneIds \ DOMAIN scenes :
              /\ \A kw \in SceneKwargs :
                    SceneCRUD_update(s, kw) => last'.ret = "None" /\ Untouched
              /\ \A n \in 1..MaxScenes :
                    SceneCRUD_update_order(s, n) => last'.ret = "False" /\ Untouched
              /\ SceneCRUD_delete(s) => last'.ret = "False" /\ Untouched
      ]_vars

\* A call on a missing scene made while the tables hold rows.
C10_Witness ==
    /\ last.op = "SceneCRUD.update"
    /\ last.ret = "None"
    /\ DOMAIN projects # {}
    /\ DOMAIN chapters # {}
    /\ DOMAIN scenes # {}

\* No chapter and no scene is added, removed or given another order_index.
OrderKept ==
    /\ DOMAIN chapters' = DOMAIN chapters
    /\ DOMAIN scenes' = DOMAIN scenes
    /\ \A x \in DOMAIN chapters : chapters'[x].order_index = chapters[x].order_index
    /\ \A x \in DOMAIN scenes : scenes'[x].order_index = scenes[x].order_index

\* C11: ChapterCRUD.update and SceneCRUD.update change the order_index of no chapter
\* and no scene, whatever fields are supplied, an explicit order_index included.
C11_UpdateKeepsOrder ==
    [][ /\ \A c \in DOMAIN chapters, kw \in ChapterKwargs :
              ChapterCRUD_update(c, kw) => OrderKept
        /\ \A s \in DOMAIN scenes, kw \in SceneKwargs :
              SceneCRUD_update(s, kw) => OrderKept
      ]_vars

\* An update that returned the row, in a store where a chapter holds two scenes.
C11_Witness ==
    /\ last.op \in {"ChapterCRUD.update", "SceneCRUD.update"}
    /\ last.ret = "Entity"
    /\ \E c \in DOMAIN chapters : Cardinality(ScenesOf(scenes, c)) >= 2

\* C12: the generic update leaves the identifier and the parent back-reference of
\* the row as they were when the fields supplied name them: a chapter keeps its
\* project_id, a scene its chapter_id, and no row is added or removed.
C12_UpdateKeepsParent ==
    [][ /\ \A c \in DOMAIN chapters, kw \in ChapterRawKwargs :
              ChapterCRUD_update(c, kw)
              => /\ DOMAIN chapters' = DOMAIN chapters
                 /\ chapters'[c].project_id = chapters[c].project_id
        /\ \A s \in DOMAIN scenes, kw \in SceneRawKwargs :
              SceneCRUD_update(s, kw)
              => /\ DOMAIN scenes' = DOMAIN scenes
                 /\ scenes'[s].chapter_id = scenes[s].chapter_id
      ]_vars

\* C13: from a state where the word-count invariants hold, SceneCRUD.delete of a
\* scene with word_count W lowers its chapter's word_count by exactly W and its
\* project's current_word_count by exactly W and changes the word_count of no other
\* chapter.
C13_DeleteLowersCounts ==
    [][ \A s \in DOMAIN scenes :
           ( /\ C2_ChapterWordCount
             /\ C3_ProjectWordCount
             /\ SceneCRUD_delete(s) )
           => LET c == scenes[s].chapter_id
                  p == chapters[c].project_id
                  W == scenes[s].word_count
              IN  /\ chapters'[c].word_count = chapters[c].word_count - W
                  /\ projects'[p].current_word_count = projects[p].current_word_count - W
                  /\ \A d \in DOMAIN chapters \ {c} :
                        chapters'[d].word_count = chapters[d].word_count
      ]_vars

\* C14: ChapterCRUD.delete of an existing chapter removes every scene of that
\* chapter and removes or alters no scene of any other chapter.
C14_DeleteCascades ==
    [][ \A c \in DOMAIN chapters :
           ChapterCRUD_delete(c)
           => /\ ScenesOf(scenes', c) = {}
              /\ DOMAIN scenes' = DOMAIN scenes \ ScenesOf(scenes, c)
              /\ \A x \in DOMAIN scenes' : scenes'[x] = scenes[x]
      ]_vars

\* A chapter was deleted, scene 1 is gone with it and scene 2 of the other chapter
\* is still there with its words.
C14_Witness ==
    /\ last.op = "ChapterCRUD.delete"
    /\ last.ret = "True"
    /\ DOMAIN chapters = {2}
    /\ DOMAIN scenes = {2}
    /\ scenes[2].chapter_id = 2
    /\ scenes[2].word_count = 2

\* C15: ProjectCRUD.delete on an existing project sets is_active to False and
\* returns True; the project row, its chapters and their scenes are all still there
\* with their fields and order_index unchanged; the project is absent from
\* get_all(active_only=True) and still returned by get_by_id and by
\* get_all(active_only=False).
C15_SoftDelete ==
    [][ \A p \in DOMAIN projects :
           ProjectCRUD_delete(p)
           => /\ last'.ret = "True"
              /\ DOMAIN projects' = DOMAIN projects
              /\ projects'[p].is_active = FALSE
              /\ projects'[p].current_word_count = projects[p].current_word_count
              /\ \A q \in DOMAIN projects \ {p} : projects'[q] = projects[q]
              /\ chapters' = chapters
              /\ scenes' = scenes
              /\ p \notin ProjectCRUD_get_all(projects', TRUE)
              /\ p \in ProjectCRUD_get_all(projects', FALSE)
              /\ ProjectCRUD_get_by_id(projects', p) = Some(projects'[p])
      ]_vars

\* A soft-deleted project that owns a chapter with a scene, next to an active one.
C15_Witness ==
    /\ last.op = "ProjectCRUD.delete"
    /\ last.ret = "True"
    /\ \E p \in DOMAIN projects :
          /\ ~projects[p].is_active
          /\ \E c \in ChaptersOf(chapters, p) : ScenesOf(scenes, c) # {}
          /\ ProjectCRUD_get_all(projects, TRUE) = DOMAIN projects \ {p}
          /\ ProjectCRUD_get_all(projects, TRUE) # {}

\* No word count of any project, chapter or scene changed and no row was added or
\* removed.
WordCountsKept ==
    /\ DOMAIN projects' = DOMAIN projects
    /\ DOMAIN chapters' = DOMAIN chapters
    /\ DOMAIN scenes' = DOMAIN scenes
    /\ \A p \in DOMAIN projects :
          projects'[p].current_word_count = projects[p].current_word_count
    /\ \A c \in DOMAIN chapters : chapters'[c].word_count = chapters[c].word_count
    /\ \A s \in DOMAIN scenes : scenes'[s].word_count = scenes[s].word_count

\* C16: ChapterCRUD._update_chapter_word_count, SceneCRUD._update_chapter_word_count
\* and ChapterCRUD._update_project_word_count called with the id of a chapter or
\* project that does not exist return without raising and change no word count.
C16_RollupOnMissing ==
    [][ /\ \A p \in ProjectIds \ DOMAIN projects :
              Do_ChapterCRUD_update_project_word_count(p)
              => last'.ret = "None" /\ WordCountsKept
        /\ \A c \in ChapterIds \ DOMAIN chapters :
              /\ Do_ChapterCRUD_update_chapter_word_count(c)
                    => last'.ret = "None" /\ WordCountsKept
              /\ Do_SceneCRUD_update_chapter_word_count(c)
                    => last'.ret = "None" /\ WordCountsKept
      ]_vars

\* A rollup that found no chapter (it stamped nothing), in a store whose other
\* chapter has words.
C16_Witness ==
    /\ last.op = "SceneCRUD._update_chapter_word_count"
    /\ last.ret = "None"
    /\ last.stamped = {}
    /\ \E c \in DOMAIN chapters : chapters[c].word_count > 0
    /\ ChapterIds \ DOMAIN chapters # {}

\* C17: ChapterCRUD.update, and SceneCRUD.update called without a content field,
\* trigger no rollup: no chapter's word_count and no project's current_word_count
\* is written and no project's updated_at is assigned.
C17_NoRollupOnFieldUpdate ==
    [][ /\ \A c \in DOMAIN chapters, kw \in ChapterKwargs :
              ChapterCRUD_update(c, kw)
              => WordCountsKept /\ "project" \notin last'.stamped
        /\ \A s \in DOMAIN scenes, kw \in SceneKwargs :
              ( /\ "content" \notin DOMAIN kw
                /\ SceneCRUD_update(s, kw) )
              => WordCountsKept /\ "project" \notin last'.stamped
      ]_vars

\* C18: reorder_chapter and reorder_scene answer a new_order outside
\* 1..sibling count with 422 and leave every order_index as it was; with a
\* new_order inside the range on an existing item they answer success and the item
\* stands at new_order.
C18_ReorderValidates ==
    [][ /\ \A c \in DOMAIN chapters, n \in RequestChapterOrders :
              reorder_chapter(c, n)
              => IF 1 <= n /\ n <= Cardinality(ChaptersOf(chapters, chapters[c].project_id))
                 THEN last'.ret = "200" /\ chapters'[c].order_index = n
                 ELSE last'.ret = "422" /\ OrderKept
        /\ \A s \in DOMAIN scenes, n \in RequestSceneOrders :
              reorder_scene(s, n)
              => IF 1 <= n /\ n <= Cardinality(ScenesOf(scenes, scenes[s].chapter_id))
                 THEN last'.ret = "200" /\ scenes'[s].order_index = n
                 ELSE last'.ret = "422" /\ OrderKept
      ]_vars

\* A rejected reorder_scene request while every scene id resolves, two scenes in
\* one chapter and one of the groups already moved by an accepted request.
C18_Witness ==
    /\ last.op = "reorder_scene"
    /\ last.ret = "422"
    /\ DOMAIN scenes = SceneIds
    /\ \E c \in DOMAIN chapters :
          /\ Cardinality(ScenesOf(scenes, c)) = MaxScenes
          /\ Moved(scenes, ScenesOf(scenes, c))

\* C20: delete_project on a project whose is_active is already False answers 400
\* and changes nothing; on an id that resolves to no project it answers 404.
C20_DeleteProjectConflict ==
    [][ \A p \in RequestProjectIds \ {0} :
           delete_project(p)
           => /\ p \notin DOMAIN projects => last'.ret = "404" /\ Untouched
              /\ (p \in DOMAIN projects /\ ~projects[p].is_active)
                    => last'.ret = "400" /\ last'.stamped = {} /\ Untouched
      ]_vars

\* A second delete request for a project that owns a chapter.
C20_Witness ==
    /\ last.op = "delete_project"
    /\ last.ret = "400"
    /\ \E p \in DOMAIN projects : ~projects[p].is_active /\ ChaptersOf(chapters, p) # {}

\* What update_order does to the group of row `id`, in range or not: the row stands
\* at new_order and the siblings moved by the shift rule.
ShiftRule(before, after, group, id, new_order) ==
    /\ DOMAIN after = DOMAIN before
    /\ after[id].order_index = new_order
    /\ IF new_order > before[id].order_index
       THEN ShiftedExactly(before, after, group, id,
                           before[id].order_index + 1, new_order, -1)
       ELSE ShiftedExactly(before, after, group, id,
                           new_order, before[id].order_index - 1, 1)

\* C19: update_order on an existing item with new_order smaller than 1 or larger
\* than the sibling count does not fail, returns True and sets the item's
\* order_index to new_order after applying the shift rule.
C19_NoRangeCheck ==
    [][ /\ \A c \in DOMAIN chapters, n \in RequestChapterOrders :
              ( /\ n < 1 \/ n > Cardinality(ChaptersOf(chapters, chapters[c].project_id))
                /\ ChapterCRUD_update_order(c, n) )
              => /\ last'.ret = "True"
                 /\ ShiftRule(chapters, chapters',
                              ChaptersOf(chapters, chapters[c].project_id), c, n)
        /\ \A s \in DOMAIN scenes, n \in RequestSceneOrders :
              ( /\ n < 1 \/ n > Cardinality(ScenesOf(scenes, scenes[s].chapter_id))
                /\ SceneCRUD_update_order(s, n) )
              => /\ last'.ret = "True"
                 /\ ShiftRule(scenes, scenes',
                              ScenesOf(scenes, scenes[s].chapter_id), s, n)
      ]_vars

\* A scene moved past the end of its chapter: the group of two stands at 1 and 3.
C19_Witness ==
    /\ last.op = "SceneCRUD.update_order"
    /\ last.ret = "True"
    /\ \E c \in DOMAIN chapters :
          /\ Cardinality(ScenesOf(scenes, c)) = MaxScenes
          /\ OrderOf(scenes, ScenesOf(scenes, c)) = {1, MaxScenes + 1}

\* C21: create_chapter with a project_id that resolves to no project and
\* create_scene with a chapter_id that resolves to no chapter answer 404 and create
\* nothing: no row, no order_index and no word count changes.
C21_CreateNeedsParent ==
    [][ /\ \A p \in ApiProjectIds \ ({0} \cup DOMAIN projects) :
              create_chapter(p) => last'.ret = "404" /\ Untouched
        /\ \A c \in RequestChapterIds \ ({0} \cup DOMAIN chapters), t \in Titles, x \in Contents :
              create_scene(c, t, x) => last'.ret = "404" /\ Untouched
      ]_vars

\* A refused create_scene request in a store whose other chapter has a scene.
C21_Witness ==
    /\ last.op = "create_scene"
    /\ last.ret = "404"
    /\ \E c \in DOMAIN chapters : ScenesOf(scenes, c) # {}
    /\ RequestChapterIds \ ({0} \cup DOMAIN chapters) # {}

\* The list holds exactly the rows of the group, each once, the k-th at order_index
\* k.
ListsInOrder(table, group, list) ==
    /\ Len(list) = Cardinality(group)
    /\ {list[k] : k \in 1..Len(list)} = group
    /\ \A k \in 1..Len(list) : table[list[k]].order_index = k

\* C22: after any sequence of valid create, update_order and delete calls,
\* get_by_project(p) returns exactly the chapters of p and get_by_chapter(c)
\* exactly the scenes of c, in ascending order_index, the k-th element at
\* order_index k (nothing for a parent without rows).
C22_ListByParent ==
    /\ \A p \in ProjectIds :
          ListsInOrder(chapters, ChaptersOf(chapters, p),
                       ChapterCRUD_get_by_project(chapters, p))
    /\ \A c \in 1..OrdChapters :
          ListsInOrder(scenes, ScenesOf(scenes, c), SceneCRUD_get_by_chapter(scenes, c))

\* Lists of full groups that are not in the order of the ids.
C22_Witness ==
    /\ \E c \in DOMAIN chapters :
          /\ Len(SceneCRUD_get_by_chapter(scenes, c)) = OrdScenes
          /\ Moved(scenes, ScenesOf(scenes, c))
    /\ \E p \in DOMAIN projects :
          /\ Len(ChapterCRUD_get_by_project(chapters, p)) >= 2
          /\ Moved(chapters, ChaptersOf(chapters, p))

\* The text "Scene N" for a one-digit N.
SceneN == [n \in 1..9 |->
             <<"S", "c", "e", "n", "e", " ">>
                 \o <<(<<"1", "2", "3", "4", "5", "6", "7", "8", "9">>)[n]>>]

\* The row the create added.
Created(before, after) == CHOOSE id \in DOMAIN after : id \notin DOMAIN before

\* C23: SceneCRUD.create without a title gives the scene the title "Scene N" with
\* N the order_index the scene was given; a non-empty title is stored unchanged.
C23_DefaultTitle ==
    [][ \A c \in DOMAIN chapters :
           /\ SceneCRUD_create(c, None, None)
                 => LET new == scenes'[Created(scenes, scenes')]
                    IN  new.title = Some(SceneN[new.order_index])
           /\ SceneCRUD_create(c, Some(<<"T">>), None)
                 => scenes'[Created(scenes, scenes')].title = Some(<<"T">>)
      ]_vars

\* The third scene of a chapter, created without a title after a titled one.
C23_Witness ==
    /\ last.op = "SceneCRUD.create"
    /\ \E s \in DOMAIN scenes :
          /\ scenes[s].order_index = OrdScenes
          /\ scenes[s].title = Some(SceneN[OrdScenes])
    /\ \E s \in DOMAIN scenes : scenes[s].title = Some(<<"T">>)

\* C24: a project whose is_active is False keeps it False across every operation
\* of the core, the ProjectCRUD.update that supplies is_active = True excepted:
\* no create, update, move or delete of a chapter or scene and no rollup sets it
\* back to True.
C24_StaysInactive ==
    [][ \A p \in DOMAIN projects :
           ( /\ ~projects[p].is_active
             /\ p \in DOMAIN projects'
             /\ projects'[p].is_active )
           => ProjectCRUD_update(p, [is_active |-> TRUE])
      ]_vars

\* A scene operation rolled words up into a project that is inactive.
C24_Witness ==
    /\ last.op \in {"SceneCRUD.create", "SceneCRUD.update", "SceneCRUD.delete"}
    /\ "project" \in last.stamped
    /\ \E p \in DOMAIN projects :
          /\ ~projects[p].is_active
          /\ projects[p].current_word_count > 0

\* The project that owns chapter c has, after the step, the sum of the word_count
\* of its chapters as they are after the step.
TotalIsFresh(c) ==
    LET p == chapters[c].project_id
    IN  projects'[p].current_word_count = SumChapterWords(chapters', p)

\* C25: the project total written by one rollup includes the chapter word_count
\* the same rollup has just computed, also under the session of get_session
\* (autoflush off): after a single SceneCRUD.create, content update or delete the
\* project's current_word_count is the sum of its chapters' word_count.
C25_RollupIncludesChapter ==
    [][ /\ \A c \in DOMAIN chapters, t \in Titles, x \in Contents :
              SceneCRUD_create(c, t, x) => TotalIsFresh(c)
        /\ \A s \in DOMAIN scenes, x \in Contents :
              SceneCRUD_update(s, [content |-> x]) => TotalIsFresh(scenes[s].chapter_id)
        /\ \A s \in DOMAIN scenes :
              SceneCRUD_delete(s) => TotalIsFresh(scenes[s].chapter_id)
      ]_vars


\* C26: two update_order calls on scenes of one chapter whose steps (read of
\* old_order, bulk shift, write of the row's own index) interleave can leave the
\* chapter's order_index values other than 1..N (C26_Witness reaches such a state);
\* as long as no call has started while another was under way, the scenes of every
\* chapter are at 1..N.
C26_OneAfterTheOtherDense ==
    ~inflight.raced => \A c \in DOMAIN chapters : Dense(scenes, ScenesOf(scenes, c))

C26_Witness ==
    /\ inflight.raced
    /\ \A k \in Sessions : inflight.calls[k].pc = "idle"
    /\ last.op = "SceneCRUD.update_order"
    /\ last.ret = "True"
    /\ \E c \in DOMAIN chapters :
          /\ Cardinality(ScenesOf(scenes, c)) = OrdScenes
          /\ ~Dense(scenes, ScenesOf(scenes, c))
          /\ \E x \in ScenesOf(scenes, c), y \in ScenesOf(scenes, c) :
                x # y /\ scenes[x].order_index = scenes[y].order_index
          /\ 1 \notin OrderOf(scenes, ScenesOf(scenes, c))


\* The ids of a dense group as the list ordered by order_index.
ListOf(table, group) ==
    CHOOSE q \in [1..Cardinality(group) -> group] :
        \A i \in 1..Cardinality(group) : table[q[i]].order_index = i

\* The reference move: take the item out of the list and put it back at position n.
Without(q, id) == SelectSeq(q, LAMBDA x : x # id)
Reinserted(q, id, n) ==
    SubSeq(Without(q, id), 1, n - 1) \o <<id>> \o SubSeq(Without(q, id), n, Len(q) - 1)

SameAsReinsert(before, after, group, id, n) ==
    /\ DOMAIN after = DOMAIN before
    /\ Dense(after, group)
    /\ ListOf(after, group) = Reinserted(ListOf(before, group), id, n)
    /\ SameRelativeOrder(before, after, group, id)

\* C27: on a dense group and for 1 <= new_order <= N, update_order(item, new_order)
\* leaves the group's list ordered by order_index equal to the list with the item
\* removed and reinserted at position new_order: the same items, the others in
\* their relative order.
C27_MoveIsReinsert ==
    [][ /\ \A s \in DOMAIN scenes, n \in 1..OrdScenes :
              ( /\ Dense(scenes, ScenesOf(scenes, scenes[s].chapter_id))
                /\ n <= Cardinality(ScenesOf(scenes, scenes[s].chapter_id))
                /\ SceneCRUD_update_order(s, n) )
              => /\ ScenesOf(scenes', scenes[s].chapter_id)
                       = ScenesOf(scenes, scenes[s].chapter_id)
                 /\ SameAsReinsert(scenes, scenes',
                                   ScenesOf(scenes, scenes[s].chapter_id), s, n)
        /\ \A c \in DOMAIN chapters, n \in 1..OrdChapters :
              ( /\ Dense(chapters, ChaptersOf(chapters, chapters[c].project_id))
                /\ n <= Cardinality(ChaptersOf(chapters, chapters[c].project_id))
                /\ ChapterCRUD_update_order(c, n) )
              => /\ ChaptersOf(chapters', chapters[c].project_id)
                       = ChaptersOf(chapters, chapters[c].project_id)
                 /\ SameAsReinsert(chapters, chapters',
                                   ChaptersOf(chapters, chapters[c].project_id), c, n)
      ]_vars

C27_Witness ==
    /\ last.op = "SceneCRUD.update_order"
    /\ last.ret = "True"
    /\ \E c \in DOMAIN chapters :
          /\ ScenesOf(scenes, c) = 1..OrdScenes
          /\ ListOf(scenes, ScenesOf(scenes, c)) = <<3, 1, 2>>
    /\ \E p \in DOMAIN projects :
          /\ ChaptersOf(chapters, p) = 1..OrdChapters
          /\ ListOf(chapters, ChaptersOf(chapters, p)) = <<2, 3, 1>>


\* Every row of `ids` that is in both tables has the same order_index in both.
SameOrderIndex(before, after, ids) ==
    \A x \in (ids \cap DOMAIN before) \cap DOMAIN after :
        after[x].order_index = before[x].order_index

ChaptersOutside(p) == DOMAIN chapters \ ChaptersOf(chapters, p)
ScenesOutside(c) == DOMAIN scenes \ ScenesOf(scenes, c)

\* C28: create, update_order and delete of a chapter change the order_index of
\* chapters of its project only, and of a scene that of scenes of its chapter only;
\* the chapter operations leave the order_index of every scene that remains as it
\* was (create and update_order remove none), the scene operations that of every
\* chapter.
C28_OtherGroupsKeepOrder ==
    [][ /\ \A p \in DOMAIN projects :
              ChapterCRUD_create(p)
              => /\ SameOrderIndex(chapters, chapters', ChaptersOutside(p))
                 /\ DOMAIN scenes' = DOMAIN scenes
                 /\ SameOrderIndex(scenes, scenes', DOMAIN scenes)
        /\ \A c \in DOMAIN chapters, n \in 1..OrdChapters :
              ChapterCRUD_update_order(c, n)
              => /\ SameOrderIndex(chapters, chapters',
                                   ChaptersOutside(chapters[c].project_id))
                 /\ DOMAIN scenes' = DOMAIN scenes
                 /\ SameOrderIndex(scenes, scenes', DOMAIN scenes)
        /\ \A c \in DOMAIN chapters :
              ChapterCRUD_delete(c)
              => /\ SameOrderIndex(chapters, chapters',
                                   ChaptersOutside(chapters[c].project_id))
                 /\ ChaptersOutside(chapters[c].project_id) \subseteq DOMAIN chapters'
                 /\ DOMAIN scenes' = ScenesOutside(c)
                 /\ SameOrderIndex(scenes, scenes', DOMAIN scenes)
        /\ \A c \in DOMAIN chapters, t \in Titles :
              SceneCRUD_create(c, t, None)
              => /\ SameOrderIndex(scenes, scenes', ScenesOutside(c))
                 /\ SameOrderIndex(chapters, chapters', DOMAIN chapters)
        /\ \A s \in DOMAIN scenes, n \in 1..OrdScenes :
              SceneCRUD_update_order(s, n)
              => /\ SameOrderIndex(scenes, scenes', ScenesOutside(scenes[s].chapter_id))
                 /\ SameOrderIndex(chapters, chapters', DOMAIN chapters)
        /\ \A s \in DOMAIN scenes :
              SceneCRUD_delete(s)
              => /\ SameOrderIndex(scenes, scenes', ScenesOutside(scenes[s].chapter_id))
                 /\ ScenesOutside(scenes[s].chapter_id) \subseteq DOMAIN scenes'
                 /\ SameOrderIndex(chapters, chapters', DOMAIN chapters)
      ]_vars

\* A move inside one group while another group of the same kind has rows at
\* positions the move's range covers.
C28_Witness ==
    /\ last.op \in {"SceneCRUD.update_order", "ChapterCRUD.update_order"}
    /\ last.ret = "True"
    /\ \E c \in DOMAIN chapters, d \in DOMAIN chapters :
          /\ c # d
          /\ Moved(scenes, ScenesOf(scenes, c))
          /\ ScenesOf(scenes, d) # {}
    /\ \E p \in DOMAIN projects, q \in DOMAIN projects :
          /\ p # q
          /\ Moved(chapters, ChaptersOf(chapters, p))
          /\ ChaptersOf(chapters, q) # {}


\* The two tables hold the same rows, alike in every column but order_index.
OnlyOrderIndexDiffers(before, after) ==
    /\ DOMAIN after = DOMAIN before
    /\ \A x \in DOMAIN before :
          [after[x] EXCEPT !.order_index = before[x].order_index] = before[x]

\* C29: update_order of a scene or chapter writes order_index (and the updated_at
\* of rows of its own kind) and nothing else: no row appears or disappears, every
\* content and word count is as before, and each word-count invariant that held
\* before the move holds after it.
C29_MoveKeepsWordCounts ==
    [][ /\ \A s \in DOMAIN scenes, n \in 1..MaxScenes :
              SceneCRUD_update_order(s, n)
              => /\ OnlyOrderIndexDiffers(scenes, scenes')
                 /\ chapters' = chapters
                 /\ projects' = projects
                 /\ last'.stamped \subseteq {"scene"}
                 /\ C2_ChapterWordCount => C2_ChapterWordCount'
                 /\ C3_ProjectWordCount => C3_ProjectWordCount'
                 /\ C4_SceneWordCount => C4_SceneWordCount'
        /\ \A c \in DOMAIN chapters, n \in 1..MaxChapters :
              ChapterCRUD_update_order(c, n)
              => /\ OnlyOrderIndexDiffers(chapters, chapters')
                 /\ scenes' = scenes
                 /\ projects' = projects
                 /\ last'.stamped \subseteq {"chapter"}
                 /\ C2_ChapterWordCount => C2_ChapterWordCount'
                 /\ C3_ProjectWordCount => C3_ProjectWordCount'
                 /\ C4_SceneWordCount => C4_SceneWordCount'
      ]_vars

C29_Witness ==
    /\ last.op = "SceneCRUD.update_order"
    /\ last.ret = "True"
    /\ \E c \in DOMAIN chapters :
          /\ Moved(scenes, ScenesOf(scenes, c))
          /\ chapters[c].word_count > 0
          /\ \E s \in ScenesOf(scenes, c) : scenes[s].word_count = 2
    /\ \E p \in DOMAIN projects : Moved(chapters, ChaptersOf(chapters, p))
    /\ C2_ChapterWordCount


\* C30: after any sequence of requests to the create, update, reorder and delete
\* endpoints of projects, chapters and scenes, the chapter_id of every scene is the
\* id of a chapter and the project_id of every chapter is the id of a project.
C30_ParentsExist ==
    /\ \A s \in DOMAIN scenes : scenes[s].chapter_id \in DOMAIN chapters
    /\ \A c \in DOMAIN chapters : chapters[c].project_id \in DOMAIN projects

\* A chapter with scenes has just been deleted; a later chapter of a project that
\* was soft-deleted still holds a scene.
C30_Witness ==
    /\ last.op = "ChapterCRUD.delete"
    /\ last.ret = "True"
    /\ 1 \notin DOMAIN chapters
    /\ 1 \notin DOMAIN scenes
    /\ \E c \in DOMAIN chapters :
          /\ ScenesOf(scenes, c) # {}
          /\ ~projects[chapters[c].project_id].is_active

====
